---- MODULE Spec2Model ----
(***************************************************************************)
(* AI job orchestration of notimetolie.com: the job state machine          *)
(* (routers/ai_config.py, services/ai_processor.py) and the per-user       *)
(* progress channel (websocket/connection_manager.py).                     *)
(*                                                                         *)
(* The relational store is the variables configs, jobs and suggestions.    *)
(* Every request handler and the background task of a job own a separate   *)
(* ORM session: a session holds its own copy of the job row (task[j].mem)  *)
(* and a commit writes exactly the attributes assigned since the previous  *)
(* commit of that session (task[j].dirty).  A background task is cut at    *)
(* its awaits: task[j].pc names the await the task is suspended in, and    *)
(* one action resumes it and runs the code up to the next await.           *)
(***************************************************************************)
EXTENDS Integers, Sequences, FiniteSets, TLC

\* ---------------------------------------------------------------- bounds
\* cancel requests a client sends for one job
MaxCancels == 2

\* notifications and broadcasts sent through the connection manager
MaxSends == 3

\* approve / reject requests one handler slot serves
MaxReviews == 2

\* replies of the receive loop a connection has not read yet
MaxReceives == 2

\* the job the model follows from its submission on; jobs share no state
\* but the channel
JobIds == {1}

\* ----------------------------------------------------- users, rows, enums
Users == {"u1", "u2"}
Conns == {"w1", "w2"}

\* configuration ids a request may name; "cfg0" is the id of no row
ConfigIds == {"cfg1"}
RequestConfigIds == ConfigIds \cup {"cfg0"}

PENDING == "pending"
RUNNING == "running"
COMPLETED == "completed"
FAILED == "failed"
CANCELLED == "cancelled"
AIJobStatus == {PENDING, RUNNING, COMPLETED, FAILED, CANCELLED}
Terminal == {COMPLETED, FAILED, CANCELLED}

AIAgentType == {"content_creator", "content_researcher", "content_editor", "course_designer"}

\* None of a timestamp column, None of a text/JSON column
NoStamp == 0
None == "None"
NoJob == [status |-> "absent"]

\* configs              ai_configurations rows: id -> [user_id, is_active]
\* jobs                 ai_jobs rows: id -> row, or NoJob before the insert
\* suggestions          ai_block_suggestions rows, in insertion order
\* task                 background task of each job: pc, session copy, result
\* cancel               cancel request in flight on each job, and its answer
\* active_connections   ConnectionManager.active_connections
\* connection_users     ConnectionManager.connection_users
\* inbox                messages each open connection has received
\* clock                datetime.utcnow(), advancing with every reading
\* last                 the last answer of create_ai_job / delete_ai_configuration,
\*                      or the last send_notification / broadcast call
\* response             the body create_ai_job returned for each job
\* submitted_active     is_active of the configuration read at submission
\* review               approve / reject request in flight in each handler slot
\* call                 the last call of a function of the services and utils,
\*                      with its arguments and what it returned
\* sending              send_personal_message / broadcast calls in flight, each
\*                      with the connections it has still to write to
VARIABLES configs, jobs, suggestions, task, cancel, active_connections, connection_users, inbox, clock, last, response, submitted_active, review, call, sending

vars == <<configs, jobs, suggestions, task, cancel, active_connections,
          connection_users, inbox, clock, last, response, submitted_active,
          review, call, sending>>

chanVars == <<active_connections, connection_users, inbox>>

\* ------------------------------------------------------ ConnectionManager

\* a lookup that ignores the user
ConnectionsOf_Everyone(ac, u) == UNION {ac[k] : k \in DOMAIN ac}

\* self.active_connections.get(user_id, set())
ConnectionsOf(ac, u) == IF u \in DOMAIN ac THEN ac[u] ELSE {}

\* a connect that fills only the map from users to websockets
ConnectRegistry_NoReverse(ac, cu, c, u) ==
    [ac |-> IF u \in DOMAIN ac
            THEN [ac EXCEPT ![u] = @ \cup {c}]
            ELSE ac @@ (u :> {c}),
     cu |-> cu]

\* ConnectionManager.connect: registry after registering websocket c for u
ConnectRegistry(ac, cu, c, u) ==
    [ac |-> IF u \in DOMAIN ac
            THEN [ac EXCEPT ![u] = @ \cup {c}]
            ELSE ac @@ (u :> {c}),
     cu |-> IF c \in DOMAIN cu
            THEN [cu EXCEPT ![c] = u]
            ELSE cu @@ (c :> u)]

\* a disconnect that drops every connection of the websocket's user
DisconnectRegistry_DropsUser(ac, cu, c) ==
    IF c \notin DOMAIN cu
    THEN [ac |-> ac, cu |-> cu]
    ELSE LET u == cu[c]
         IN [ac |-> [k \in DOMAIN ac \ {u} |-> ac[k]],
             cu |-> [k \in DOMAIN cu \ {c} |-> cu[k]]]

\* ConnectionManager.disconnect: registry after removing websocket c
DisconnectRegistry(ac, cu, c) ==
    IF c \notin DOMAIN cu
    THEN [ac |-> ac, cu |-> cu]
    ELSE LET u == cu[c]
             rest == ConnectionsOf(ac, u) \ {c}
             ac2 == IF u \notin DOMAIN ac THEN ac
                    ELSE IF rest = {}
                         THEN [k \in DOMAIN ac \ {u} |-> ac[k]]
                         ELSE [ac EXCEPT ![u] = rest]
         IN [ac |-> ac2, cu |-> [k \in DOMAIN cu \ {c} |-> cu[k]]]

RECURSIVE DisconnectEach(_, _, _)
\* disconnect applied to every connection whose send_text raised
DisconnectEach(ac, cu, failed) ==
    IF failed = {} THEN [ac |-> ac, cu |-> cu]
    ELSE LET c == CHOOSE x \in failed : TRUE
             r == DisconnectRegistry(ac, cu, c)
         IN DisconnectEach(r.ac, r.cu, failed \ {c})

\* the two message shapes of the channel
StatusUpdate(job_id, status) ==
    [type |-> "ai_job_update", job_id |-> job_id, status |-> status, progress |-> -1]
Progress(job_id, percent) ==
    [type |-> "ai_job_progress", job_id |-> job_id, status |-> None, progress |-> percent]
Welcome ==
    [type |-> "connection", job_id |-> 0, status |-> "connected", progress |-> -1]

\* a transport that hands a connection its newest message first
SendPersonalMessage_Reordered(message, user_id, failed) ==
    LET connections == ConnectionsOf(active_connections, user_id)
        r == DisconnectEach(active_connections, connection_users, failed)
    IN /\ failed \subseteq connections
       /\ active_connections' = r.ac
       /\ connection_users' = r.cu
       /\ inbox' = [c \in Conns |->
                      IF c \in failed THEN <<>>
                      ELSE IF c \in connections THEN <<message>> \o inbox[c]
                      ELSE inbox[c]]

\* ConnectionManager.send_personal_message: the message reaches every
\* connection of user_id whose send_text succeeds; a connection whose
\* send_text raises is disconnected.  Nothing is raised to the caller.
SendPersonalMessage(message, user_id, failed) ==
    LET connections == ConnectionsOf(active_connections, user_id)
        r == DisconnectEach(active_connections, connection_users, failed)
    IN /\ failed \subseteq connections
       /\ active_connections' = r.ac
       /\ connection_users' = r.cu
       /\ inbox' = [c \in Conns |->
                      IF c \in failed THEN <<>>
                      ELSE IF c \in connections THEN Append(inbox[c], message)
                      ELSE inbox[c]]

\* every registered websocket
AllConnections(ac) == UNION {ac[u] : u \in DOMAIN ac}

\* ConnectionManager.broadcast: the message goes to every registered
\* websocket; one whose send_text raises is disconnected
Broadcast(message, failed) ==
    LET all_connections == AllConnections(active_connections)
        r == DisconnectEach(active_connections, connection_users, failed)
    IN /\ failed \subseteq all_connections
       /\ active_connections' = r.ac
       /\ connection_users' = r.cu
       /\ inbox' = [c \in Conns |->
                      IF c \in failed THEN <<>>
                      ELSE IF c \in all_connections THEN Append(inbox[c], message)
                      ELSE inbox[c]]

\* the message of send_notification, with the time reading it carries
Notification(now) ==
    [type |-> "notification", job_id |-> 0, status |-> None, progress |-> -1,
     timestamp |-> now]

\* what a returned call of the channel did, as its caller saw it
ChannelCall(op, u, targets, failed, message) ==
    [op |-> op, user |-> u, targets |-> targets, failed |-> failed,
     message |-> message]

\* ConnectionManager.send_notification for user u
SendNotification(u, failed) ==
    /\ clock <= MaxSends
    /\ SendPersonalMessage(Notification(clock), u, failed)
    /\ clock' = clock + 1
    /\ last' = ChannelCall("send_personal_message", u,
                           ConnectionsOf(active_connections, u), failed,
                           Notification(clock))
    /\ UNCHANGED <<call, sending, review, configs, jobs, suggestions, task, cancel, response,
                   submitted_active>>

\* ConnectionManager.broadcast of a notification
BroadcastNotification(failed) ==
    /\ clock <= MaxSends
    /\ Broadcast(Notification(clock), failed)
    /\ clock' = clock + 1
    /\ last' = ChannelCall("broadcast", None, AllConnections(active_connections),
                           failed, Notification(clock))
    /\ UNCHANGED <<call, sending, review, configs, jobs, suggestions, task, cancel, response,
                   submitted_active>>

\* websocket_endpoint up to its receive loop: manager.connect, then the welcome
Connect(c, u) ==
    /\ c \notin DOMAIN connection_users
    /\ LET r == ConnectRegistry(active_connections, connection_users, c, u)
       IN /\ active_connections' = r.ac
          /\ connection_users' = r.cu
    /\ inbox' = [inbox EXCEPT ![c] = <<Welcome>>]
    /\ UNCHANGED <<call, sending, review, configs, jobs, suggestions, task, cancel, clock, last,
                   response, submitted_active>>

\* what a client can send: the three message types, another type, text that
\* is not JSON, and JSON that is not an object
Payloads == {"ping", "subscribe", "unsubscribe", "other", "not_json", "not_object"}

Reply(type, message) ==
    [type |-> type, job_id |-> 0, status |-> None, progress |-> -1,
     message |-> message]

\* a loop whose handler for undecodable text leaves the loop
ReplyTo_ClosesOnInvalid(payload) ==
    CASE payload = "ping" -> Reply("pong", None)
      [] payload = "subscribe" -> Reply("subscribed", "Subscribed")
      [] payload = "unsubscribe" -> Reply("unsubscribed", "Unsubscribed")
      [] payload = "other" -> Reply("none", None)
      [] payload = "not_json" -> Reply("break", None)
      [] payload = "not_object" -> Reply("break", None)

\* one round of the receive loop of websocket_endpoint: the reply sent,
\* "none" for a message type that is only logged, "break" when the round
\* ends in the except Exception clause (message.get on JSON that is not an
\* object)
ReplyTo(payload) ==
    CASE payload = "ping" -> Reply("pong", None)
      [] payload = "subscribe" -> Reply("subscribed", "Subscribed")
      [] payload = "unsubscribe" -> Reply("unsubscribed", "Unsubscribed")
      [] payload = "other" -> Reply("none", None)
      [] payload = "not_json" -> Reply("error", "Invalid JSON")
      [] payload = "not_object" -> Reply("break", None)

\* websocket_endpoint receives one text frame on connection c
Receive(c, payload) ==
    /\ c \in DOMAIN connection_users
    /\ Len(inbox[c]) <= MaxReceives
    /\ LET reply == ReplyTo(payload)
           r == DisconnectRegistry(active_connections, connection_users, c)
       IN IF reply.type = "break"
          THEN /\ active_connections' = r.ac
               /\ connection_users' = r.cu
               /\ inbox' = [inbox EXCEPT ![c] = <<>>]
          ELSE /\ UNCHANGED <<active_connections, connection_users>>
               /\ inbox' = IF reply.type = "none" THEN inbox
                            ELSE [inbox EXCEPT ![c] = Append(@, reply)]
    /\ last' = [op |-> "receive", conn |-> c, payload |-> payload]
    /\ UNCHANGED <<call, sending, review, configs, jobs, suggestions, task, cancel, clock,
                   response, submitted_active>>

\* websocket_endpoint's finally: manager.disconnect when the client goes away
Disconnect(c) ==
    /\ c \in DOMAIN connection_users
    /\ LET r == DisconnectRegistry(active_connections, connection_users, c)
       IN /\ active_connections' = r.ac
          /\ connection_users' = r.cu
    /\ inbox' = [inbox EXCEPT ![c] = <<>>]
    /\ UNCHANGED <<call, sending, review, configs, jobs, suggestions, task, cancel, clock, last,
                   response, submitted_active>>

\* ------------------------------------------------------------- the store

JobFields == {"user_id", "configuration_id", "job_type", "has_block_id", "status",
              "started_at", "completed_at", "error_message", "output_data"}

\* the query without its user_id filter
FindOwnedConfig_AnyOwner(cfgs, cid, u) ==
    cid \in DOMAIN cfgs

\* create_ai_job's query: the configuration with this id that belongs to the caller
FindOwnedConfig(cfgs, cid, u) ==
    /\ cid \in DOMAIN cfgs
    /\ cfgs[cid].user_id = u

\* the AIJob row create_ai_job builds and inserts
NewJob(u, cid, job_type, has_block_id) ==
    [user_id |-> u, configuration_id |-> cid, job_type |-> job_type,
     has_block_id |-> has_block_id, status |-> PENDING,
     started_at |-> NoStamp, completed_at |-> NoStamp,
     error_message |-> None, output_data |-> None]

\* the AIJobPublic body built from a job row
AIJobPublic(row) ==
    [status |-> row.status, started_at |-> row.started_at,
     completed_at |-> row.completed_at, output_data |-> row.output_data,
     error_message |-> row.error_message]

\* the handler's job object after db.refresh, which follows the insert's commit:
\* the row as inserted
RefreshedJob(row) ==
    NewJob(row.user_id, row.configuration_id, row.job_type, row.has_block_id)

NoResponse == [status |-> "absent"]

\* AsyncSession.commit of a session holding the copy mem of one job row: the
\* UPDATE carries exactly the attributes assigned since the last commit
CommitRow(row, mem, dirty) ==
    [f \in JobFields |-> IF f \in dirty THEN mem[f] ELSE row[f]]

HttpResponse(op, u, cid, job_id, code) ==
    [op |-> op, user |-> u, config_id |-> cid, job_id |-> job_id, code |-> code]

\* the id of the next job row (uuid4 in the source)
NextJobId == Cardinality({j \in JobIds : jobs[j] # NoJob}) + 1

\* no list of context blocks: outside the task template
NoContext == -1

IdleTask ==
    [pc |-> "idle", mem |-> NoJob, dirty |-> {}, result |-> None,
     context |-> NoContext]
IdleCancel == [pc |-> "idle", user |-> None, stamp |-> NoStamp, code |-> 0, n |-> 0]

\* ------------------------------------------------------- request handlers

\* whether input_metadata carries a block_id: only _process_content_editor
\* reads it, so the other kinds are submitted without one
BlockIdChoices(job_type) ==
    IF job_type = "content_editor" THEN BOOLEAN ELSE {FALSE}

\* create_ai_job with a configuration the query does not find: 404
SubmitRejected(u, cid) ==
    /\ ~FindOwnedConfig(configs, cid, u)
    /\ last' = HttpResponse("create_ai_job", u, cid, 0, 404)
    /\ UNCHANGED <<call, sending, review, configs, jobs, suggestions, task, cancel, chanVars, clock,
                   response, submitted_active>>

\* create_ai_job up to background_tasks.add_task: the row is inserted,
\* committed and refreshed, and the background task is queued to run after
\* the response
SubmitPersist(u, cid, job_type, has_block_id) ==
    /\ FindOwnedConfig(configs, cid, u)
    /\ NextJobId \in JobIds
    /\ \A j \in JobIds : jobs[j] # NoJob => response[j] # NoResponse
    /\ LET id == NextJobId
       IN /\ jobs' = [jobs EXCEPT ![id] = NewJob(u, cid, job_type, has_block_id)]
          /\ task' = [task EXCEPT ![id] = [IdleTask EXCEPT !.pc = "queued"]]
          /\ submitted_active' = [submitted_active EXCEPT ![id] = configs[cid].is_active]
    /\ UNCHANGED <<call, sending, review, configs, suggestions, cancel, chanVars, clock, last, response>>

\* create_ai_job's return: 202 with the body built from the refreshed row
SubmitReturn(j) ==
    /\ jobs[j] # NoJob
    /\ response[j] = NoResponse
    /\ response' = [response EXCEPT ![j] = AIJobPublic(RefreshedJob(jobs[j]))]
    /\ last' = HttpResponse("create_ai_job", jobs[j].user_id,
                            jobs[j].configuration_id, j, 202)
    /\ UNCHANGED <<call, sending, review, configs, jobs, suggestions, task, cancel, chanVars, clock,
                   submitted_active>>

\* delete_ai_configuration: soft delete of a configuration of the caller
DeleteConfig(u, cid) ==
    /\ IF FindOwnedConfig(configs, cid, u)
       THEN /\ configs' = [configs EXCEPT ![cid].is_active = FALSE]
            /\ last' = HttpResponse("delete_ai_configuration", u, cid, 0, 204)
       ELSE /\ configs' = configs
            /\ last' = HttpResponse("delete_ai_configuration", u, cid, 0, 404)
    /\ UNCHANGED <<call, sending, review, jobs, suggestions, task, cancel, chanVars, clock, response,
                   submitted_active>>

\* ------------------------------------------- AIJobProcessor.process_job

\* a task started from inside the handler, before the response
BackgroundTaskMayStart_Eager(j) == jobs[j] # NoJob

\* Starlette runs a BackgroundTasks entry after the response has been sent
BackgroundTaskMayStart(j) == response[j] # NoResponse

\* job.status = RUNNING; job.started_at = now
MarkRunning(mem, now) ==
    [mem EXCEPT !.status = RUNNING, !.started_at = now]

\* job.status = COMPLETED; job.completed_at = now
MarkCompleted(mem, now) ==
    [mem EXCEPT !.status = COMPLETED, !.completed_at = now]

\* the except block of process_job: job.status = FAILED; job.error_message = str(e)
MarkFailed(mem, message) ==
    [mem EXCEPT !.status = FAILED, !.error_message = message]

\* an except block that records the failure and sends nothing
Raise_NoUpdate(t, message) ==
    [t EXCEPT !.mem = MarkFailed(t.mem, message),
              !.dirty = @ \cup {"status", "error_message"},
              !.context = NoContext,
              !.pc = "finally_commit"]

\* the task after an exception reached the except block of process_job,
\* suspended in the send of the failure update
Raise(t, message) ==
    [t EXCEPT !.mem = MarkFailed(t.mem, message),
              !.dirty = @ \cup {"status", "error_message"},
              !.context = NoContext,
              !.pc = "send_failed"]

\* the task after the task template returned, suspended in the send of the
\* completion update
Complete(t, now) ==
    [t EXCEPT !.mem = MarkCompleted(t.mem, now),
              !.dirty = @ \cup {"status", "completed_at"},
              !.context = NoContext,
              !.pc = "send_completed"]

\* the first await of the task template process_job dispatches to
Dispatch(t) ==
    CASE t.mem.job_type = "content_creator" -> [t EXCEPT !.pc = "cc_progress10"]
      [] t.mem.job_type = "content_researcher" -> [t EXCEPT !.pc = "cr_search"]
      [] t.mem.job_type = "course_designer" -> [t EXCEPT !.pc = "cd_search"]
      [] t.mem.job_type = "content_editor" ->
            IF t.mem.has_block_id
            THEN [t EXCEPT !.pc = "ce_load_block"]
            ELSE Raise(t, "block_id required in input_metadata for content editor")

\* process_job from its start to the commit of RUNNING: both rows are loaded
\* into the task's own session
TaskLoad(j) ==
    /\ task[j].pc = "queued"
    /\ BackgroundTaskMayStart(j)
    /\ IF jobs[j].configuration_id \in DOMAIN configs
       THEN /\ task' = [task EXCEPT ![j].mem = MarkRunning(jobs[j], clock),
                                    ![j].dirty = {"status", "started_at"},
                                    ![j].pc = "commit_running"]
            /\ clock' = clock + 1
       ELSE /\ task' = [task EXCEPT ![j].mem = MarkFailed(jobs[j], "Configuration not found"),
                                    ![j].dirty = {"status", "error_message"},
                                    ![j].pc = "finally_commit"]
            /\ clock' = clock
    /\ UNCHANGED <<call, sending, review, configs, jobs, suggestions, cancel, chanVars, last, response,
                   submitted_active>>

\* await self.db.commit() after job.status = RUNNING
TaskCommitRunning(j) ==
    /\ task[j].pc = "commit_running"
    /\ jobs' = [jobs EXCEPT ![j] = CommitRow(jobs[j], task[j].mem, task[j].dirty)]
    /\ task' = [task EXCEPT ![j].dirty = {}, ![j].pc = "send_running"]
    /\ UNCHANGED <<call, sending, review, configs, suggestions, cancel, chanVars, clock, last, response,
                   submitted_active>>

\* send_ai_job_update(RUNNING), then the dispatch on job_type
TaskSendRunning(j, failed) ==
    /\ task[j].pc = "send_running"
    /\ SendPersonalMessage(StatusUpdate(j, RUNNING), task[j].mem.user_id, failed)
    /\ task' = [task EXCEPT ![j] = Dispatch(task[j])]
    /\ UNCHANGED <<call, sending, review, configs, jobs, suggestions, cancel, clock, last, response,
                   submitted_active>>

\* milestones whose middle percentages are exchanged
ProgressSteps_Exchanged ==
    [cc_progress10 |-> [percent |-> 10, next |-> "cc_search"],
     cc_progress30 |-> [percent |-> 50, next |-> "cc_progress50"],
     cc_progress50 |-> [percent |-> 30, next |-> "cc_generate"],
     cc_progress80 |-> [percent |-> 80, next |-> "cc_commit_suggestion"]]

\* the four send_ai_job_progress milestones of _process_content_creator
ProgressSteps ==
    [cc_progress10 |-> [percent |-> 10, next |-> "cc_search"],
     cc_progress30 |-> [percent |-> 30, next |-> "cc_progress50"],
     cc_progress50 |-> [percent |-> 50, next |-> "cc_generate"],
     cc_progress80 |-> [percent |-> 80, next |-> "cc_commit_suggestion"]]

\* a template that keeps the provider result to itself
StoreOutput_NotAssigned(t) == t

\* job.output_data = ...; job.tokens_used = ...; job.suggested_blocks = ...
StoreOutput(t) ==
    [t EXCEPT !.mem.output_data = "result", !.dirty = @ \cup {"output_data"}]

\* one send_ai_job_progress of _process_content_creator; after the 80% one
\* the result is stored on the job and the suggestion is added to the session
TaskProgress(j, failed) ==
    /\ task[j].pc \in DOMAIN ProgressSteps
    /\ LET step == ProgressSteps[task[j].pc]
           t == [task[j] EXCEPT !.pc = step.next]
       IN /\ SendPersonalMessage(Progress(j, step.percent), task[j].mem.user_id, failed)
          /\ task' = [task EXCEPT ![j] = IF step.percent = 80 THEN StoreOutput(t) ELSE t]
    /\ UNCHANGED <<call, sending, review, configs, jobs, suggestions, cancel, clock, last, response,
                   submitted_active>>

\* the await after each context query
SearchNext ==
    [cc_search |-> "cc_progress30", cr_search |-> "cr_generate", cd_search |-> "cd_generate"]

\* the limit each template passes to the context query
SearchLimit == [cc_search |-> 5, cr_search |-> 10, cd_search |-> 20]

\* published blocks whose title matches the prompt of the job
MatchingRows == 25

\* a query without its .limit(limit)
SearchExistingBlocks_Unlimited(store_ok, matches, limit) ==
    IF store_ok THEN matches ELSE 0

\* MCPClient.search_existing_blocks, and discover_related_content which
\* forwards to it: the length of the list returned; an exception of the
\* store is caught and the empty list returned
SearchExistingBlocks(store_ok, matches, limit) ==
    IF store_ok
    THEN (IF matches <= limit THEN matches ELSE limit)
    ELSE 0

\* mcp_client.search_existing_blocks / discover_related_content returns;
\* existing_blocks / related_blocks lives until the template returns
TaskSearch(j, store_ok) ==
    /\ task[j].pc \in DOMAIN SearchNext
    /\ task' = [task EXCEPT
                  ![j].pc = SearchNext[task[j].pc],
                  ![j].context = SearchExistingBlocks(store_ok, MatchingRows,
                                                      SearchLimit[task[j].pc])]
    /\ UNCHANGED <<call, sending, review, configs, jobs, suggestions, cancel, chanVars, clock, last,
                   response, submitted_active>>

\* _process_content_editor: the select of the target block returns
TaskLoadBlock(j, found) ==
    /\ task[j].pc = "ce_load_block"
    /\ task' = [task EXCEPT ![j] = IF found THEN [@ EXCEPT !.pc = "ce_generate"]
                                   ELSE Raise(@, "Block not found")]
    /\ UNCHANGED <<call, sending, review, configs, jobs, suggestions, cancel, chanVars, clock, last,
                   response, submitted_active>>

\* what provider.generate can return: content, the error variant, or no content
ProviderResults == {"content", "error", "empty"}

GenerateAwaits == {"cc_generate", "cr_generate", "ce_generate", "cd_generate"}

\* a template that checks the error variant but not the empty content
AfterGenerate_NoEmptyCheck(t, result, now) ==
    LET r == [t EXCEPT !.result = result]
    IN CASE result = "error" -> Raise(r, "AI provider error")
         [] result # "error" /\ t.pc = "cc_generate" -> [r EXCEPT !.pc = "cc_progress80"]
         [] result # "error" /\ t.pc = "ce_generate" ->
                [StoreOutput(r) EXCEPT !.pc = "ce_commit_suggestion"]
         [] result # "error" /\ t.pc \in {"cr_generate", "cd_generate"} ->
                Complete(StoreOutput(r), now)

\* the task template from the return of provider.generate to its next await
AfterGenerate(t, result, now) ==
    LET r == [t EXCEPT !.result = result]
    IN CASE result = "error" -> Raise(r, "AI provider error")
         [] result = "empty" -> Raise(r, "AI provider returned no content")
         [] result = "content" /\ t.pc = "cc_generate" -> [r EXCEPT !.pc = "cc_progress80"]
         [] result = "content" /\ t.pc = "ce_generate" ->
                [StoreOutput(r) EXCEPT !.pc = "ce_commit_suggestion"]
         [] result = "content" /\ t.pc \in {"cr_generate", "cd_generate"} ->
                Complete(StoreOutput(r), now)

\* provider.generate returns
TaskGenerate(j, result) ==
    /\ task[j].pc \in GenerateAwaits
    /\ task' = [task EXCEPT ![j] = AfterGenerate(task[j], result, clock)]
    /\ clock' = IF task'[j].pc = "send_completed" THEN clock + 1 ELSE clock
    /\ UNCHANGED <<call, sending, review, configs, jobs, suggestions, cancel, chanVars, last, response,
                   submitted_active>>

\* the AIBlockSuggestion row of _create_block_suggestion / _create_edit_suggestion
NewSuggestion(mem, job_id) ==
    [ai_job_id |-> job_id, user_id |-> mem.user_id, status |-> "pending",
     edit |-> (mem.job_type = "content_editor"),
     approved_at |-> NoStamp, rejected_at |-> NoStamp, user_feedback |-> None]

\* a template that adds its suggestion to the session twice
TaskCommitSuggestion_Twice(j) ==
    /\ task[j].pc \in {"cc_commit_suggestion", "ce_commit_suggestion"}
    /\ jobs' = [jobs EXCEPT ![j] = CommitRow(jobs[j], task[j].mem, task[j].dirty)]
    /\ suggestions' = suggestions \o <<NewSuggestion(task[j].mem, j),
                                       NewSuggestion(task[j].mem, j)>>
    /\ task' = [task EXCEPT ![j] = Complete([@ EXCEPT !.dirty = {}], clock)]
    /\ clock' = clock + 1
    /\ UNCHANGED <<call, sending, review, configs, cancel, chanVars, last, response, submitted_active>>

\* await self.db.commit() of _create_block_suggestion / _create_edit_suggestion:
\* the suggestion is inserted and the job's assigned attributes are written;
\* back in process_job the job is marked COMPLETED
TaskCommitSuggestion(j) ==
    /\ task[j].pc \in {"cc_commit_suggestion", "ce_commit_suggestion"}
    /\ jobs' = [jobs EXCEPT ![j] = CommitRow(jobs[j], task[j].mem, task[j].dirty)]
    /\ suggestions' = Append(suggestions, NewSuggestion(task[j].mem, j))
    /\ task' = [task EXCEPT ![j] = Complete([@ EXCEPT !.dirty = {}], clock)]
    /\ clock' = clock + 1
    /\ UNCHANGED <<call, sending, review, configs, cancel, chanVars, last, response, submitted_active>>

\* send_ai_job_update(COMPLETED) returns; the finally block is entered
TaskSendCompleted(j, failed) ==
    /\ task[j].pc = "send_completed"
    /\ SendPersonalMessage(StatusUpdate(j, COMPLETED), task[j].mem.user_id, failed)
    /\ task' = [task EXCEPT ![j].pc = "finally_commit"]
    /\ UNCHANGED <<call, sending, review, configs, jobs, suggestions, cancel, clock, last, response,
                   submitted_active>>

\* send_ai_job_update(FAILED) returns; the finally block is entered
TaskSendFailed(j, failed) ==
    /\ task[j].pc = "send_failed"
    /\ SendPersonalMessage(StatusUpdate(j, FAILED), task[j].mem.user_id, failed)
    /\ task' = [task EXCEPT ![j].pc = "finally_commit"]
    /\ UNCHANGED <<call, sending, review, configs, jobs, suggestions, cancel, clock, last, response,
                   submitted_active>>

\* the finally block: await self.db.commit()
TaskFinallyCommit(j) ==
    /\ task[j].pc = "finally_commit"
    /\ jobs' = [jobs EXCEPT ![j] = CommitRow(jobs[j], task[j].mem, task[j].dirty)]
    /\ task' = [task EXCEPT ![j].dirty = {}, ![j].pc = "done"]
    /\ UNCHANGED <<call, sending, review, configs, suggestions, cancel, chanVars, clock, last, response,
                   submitted_active>>

\* a store call of process_job that no except clause covers raises: the two
\* selects at its start (the job stays as submitted) or the commit of the
\* finally block (nothing assigned since the last commit is written); the
\* exception leaves process_job and is printed by _process
TaskStoreRaises(j) ==
    /\ \/ task[j].pc = "queued" /\ BackgroundTaskMayStart(j)
       \/ task[j].pc = "finally_commit"
    /\ task' = [task EXCEPT ![j].pc = "raised"]
    /\ UNCHANGED <<call, sending, review, configs, jobs, suggestions, cancel, chanVars, clock, last,
                   response, submitted_active>>

\* ------------------------------------------------------------ cancel_ai_job

\* a status check that forgets CANCELLED
CancelRejects_NotCancelled(status) == status \in {COMPLETED, FAILED}

\* the status check of cancel_ai_job
CancelRejects(status) == status \in {COMPLETED, FAILED, CANCELLED}

\* a cancel that sets the status only
CancelJob_StatusOnly(row, now) ==
    [row EXCEPT !.status = CANCELLED]

\* the four assignments of cancel_ai_job (updated_at is not modelled)
CancelJob(row, now) ==
    [row EXCEPT !.status = CANCELLED, !.error_message = "Cancelled by user",
                !.completed_at = now]

\* cancel_ai_job up to await db.commit(): the select, 404 for a job that is
\* not the caller's, 400 for a terminal one, else the assignments
CancelLoad(u, j) ==
    /\ cancel[j].pc = "idle"
    /\ cancel[j].n < MaxCancels
    /\ jobs[j] # NoJob
    /\ response[j] # NoResponse
    /\ IF jobs[j].user_id # u
       THEN /\ cancel' = [cancel EXCEPT ![j] = [pc |-> "idle", user |-> u, stamp |-> NoStamp,
                                                code |-> 404, n |-> @.n + 1]]
            /\ clock' = clock
       ELSE IF CancelRejects(jobs[j].status)
       THEN /\ cancel' = [cancel EXCEPT ![j] = [pc |-> "idle", user |-> u, stamp |-> NoStamp,
                                                code |-> 400, n |-> @.n + 1]]
            /\ clock' = clock
       ELSE /\ cancel' = [cancel EXCEPT ![j] = [pc |-> "commit", user |-> u, stamp |-> clock,
                                                code |-> 0, n |-> @.n + 1]]
            /\ clock' = clock + 1
    /\ UNCHANGED <<call, sending, review, configs, jobs, suggestions, task, chanVars, last, response,
                   submitted_active>>

\* await db.commit() of cancel_ai_job
CancelCommit(j) ==
    /\ cancel[j].pc = "commit"
    /\ jobs' = [jobs EXCEPT ![j] = CancelJob(jobs[j], cancel[j].stamp)]
    /\ cancel' = [cancel EXCEPT ![j].pc = "send"]
    /\ UNCHANGED <<call, sending, review, configs, suggestions, task, chanVars, clock, last, response,
                   submitted_active>>

\* the notification of cancel_ai_job and its return; an exception of the
\* send is swallowed
CancelSend(j, failed) ==
    /\ cancel[j].pc = "send"
    /\ SendPersonalMessage(StatusUpdate(j, CANCELLED), cancel[j].user, failed)
    /\ cancel' = [cancel EXCEPT ![j].pc = "idle", ![j].stamp = NoStamp, ![j].code = 200]
    /\ UNCHANGED <<call, sending, review, configs, jobs, suggestions, task, clock, last, response,
                   submitted_active>>

\* ------------------------------ approve_ai_suggestion / reject_ai_suggestion

\* handler slots: two requests can be in flight at once
Reviewers == {"r1", "r2"}

IdleReview ==
    [pc |-> "idle", kind |-> None, user |-> None, id |-> 0, stamp |-> NoStamp,
     feedback |-> None, code |-> 0, n |-> 0]

\* suggestion ids a request may name, and the feedback text of a reject
SuggestionIds == {1}
Feedbacks == {None, "feedback"}

\* the assignments of approve_ai_suggestion (updated_at is not modelled)
Approve(row, now) ==
    [row EXCEPT !.status = "approved", !.approved_at = now]

\* the assignments of reject_ai_suggestion
Reject(row, feedback, now) ==
    [row EXCEPT !.status = "rejected", !.user_feedback = feedback,
                !.rejected_at = now]

\* the select of both handlers: the suggestion with this id that belongs to
\* the caller
FindOwnedSuggestion(rows, id, u) ==
    /\ id \in DOMAIN rows
    /\ rows[id].user_id = u

\* approve_ai_suggestion / reject_ai_suggestion up to await db.commit(): the
\* select, 404 for a suggestion that is not the caller's, 400 for one that is
\* not pending, else the assignments
ReviewLoad(r, kind, u, id, feedback) ==
    /\ review[r].pc = "idle"
    /\ review[r].n < MaxReviews
    /\ kind = "approve" => feedback = None
    /\ LET answer(code) == [pc |-> "idle", kind |-> kind, user |-> u, id |-> id,
                            stamp |-> NoStamp, feedback |-> feedback,
                            code |-> code, n |-> review[r].n + 1]
       IN IF ~FindOwnedSuggestion(suggestions, id, u)
          THEN /\ review' = [review EXCEPT ![r] = answer(404)]
               /\ clock' = clock
          ELSE IF suggestions[id].status # "pending"
          THEN /\ review' = [review EXCEPT ![r] = answer(400)]
               /\ clock' = clock
          ELSE /\ review' = [review EXCEPT ![r] =
                                [answer(0) EXCEPT !.pc = "commit", !.stamp = clock]]
               /\ clock' = clock + 1
    /\ UNCHANGED <<call, sending, configs, jobs, suggestions, task, cancel,
                   chanVars, last, response, submitted_active>>

\* await db.commit() of the handler and its 200
ReviewCommit(r) ==
    /\ review[r].pc = "commit"
    /\ suggestions' = [suggestions EXCEPT ![review[r].id] =
                          IF review[r].kind = "approve"
                          THEN Approve(@, review[r].stamp)
                          ELSE Reject(@, review[r].feedback, review[r].stamp)]
    /\ review' = [review EXCEPT ![r].pc = "idle", ![r].code = 200]
    /\ UNCHANGED <<call, sending, configs, jobs, task, cancel, chanVars, clock,
                   last, response, submitted_active>>

\* -------------------------------------------------- calls of pure functions

NoCall == [op |-> None]

\* everything but call stays as it is
OnlyCall ==
    UNCHANGED <<sending, review, configs, jobs, suggestions, task, cancel,
                chanVars, clock, last, response, submitted_active>>

\* ---- services/ai_providers.py: generate

Adapters == {"OpenAIProvider", "AnthropicProvider", "CustomProvider"}

\* what the vendor SDK call does: a completion with text, one without text,
\* a response without choices, or an exception of one of four classes
FailureClasses == {"authentication", "unknown_model", "rate_limit", "transport"}
VendorOutcomes == {"content", "empty", "no_choices"} \cup FailureClasses

\* str(e) of the SDK exception of each class, as the substrings the
\* rewriting looks for
ExceptionText(class) ==
    CASE class = "authentication" -> {"401", "authentication"}
      [] class = "unknown_model" -> {"404"}
      [] class = "rate_limit" -> {"429", "rate", "limit"}
      [] class = "transport" -> {"connection"}

AuthenticationText == "Authentication failed. Please check your API key."
ModelText == "Model not found. Please check the model name."
RateLimitText == "Rate limit exceeded. Please try again later."
NoChoicesText == "Invalid response from AI provider: no choices in response"
\* an error message that is str(e) as the SDK produced it
RawText == "str(e)"

\* the except clause of OpenAIProvider.generate and CustomProvider.generate
RewriteError(text) ==
    IF "401" \in text \/ "authentication" \in text THEN AuthenticationText
    ELSE IF "404" \in text THEN ModelText
    ELSE IF "rate" \in text /\ "limit" \in text THEN RateLimitText
    ELSE RawText

GenerateResult(error, content) == [error |-> error, content |-> content]

\* generate of the three adapters: the dict it returns
Generate(adapter, outcome) ==
    CASE outcome = "content" -> GenerateResult(None, "content")
      [] outcome = "empty" -> GenerateResult(None, None)
      [] outcome = "no_choices" ->
            IF adapter = "AnthropicProvider"
            THEN GenerateResult(None, None)
            ELSE GenerateResult(NoChoicesText, None)
      [] outcome \in FailureClasses ->
            IF adapter = "AnthropicProvider"
            THEN GenerateResult(RawText, None)
            ELSE GenerateResult(RewriteError(ExceptionText(outcome)), None)

CallGenerate(adapter, outcome) ==
    /\ call' = [op |-> "generate", adapter |-> adapter, outcome |-> outcome,
                result |-> Generate(adapter, outcome)]
    /\ OnlyCall

\* ---- utils/encryption.py

\* longest plaintext of the calls
MaxLen == 2

\* ASCII characters of a plaintext
Chars == {"a", "b"}

RECURSIVE StringsUpTo(_)
StringsUpTo(n) ==
    IF n = 0 THEN {<<>>}
    ELSE LET shorter == StringsUpTo(n - 1)
         IN  shorter \cup {Append(w, c) : w \in {x \in shorter : Len(x) = n - 1},
                                          c \in Chars}

Plaintexts == StringsUpTo(MaxLen)

\* values of SECRET_KEY; the Fernet key is derived from it with a fixed salt
Secrets == {"secret1", "secret2"}

\* the empty str
EmptyText == [kind |-> "empty"]

\* Fernet.encrypt: a token that seals data under the key and signs it
FernetEncrypt(secret, data) ==
    [key |-> secret, data |-> data, signed |-> TRUE]

\* Fernet.decrypt: raises InvalidToken unless the token was signed under
\* this key and has not been altered since
FernetDecrypt(secret, token) ==
    IF token.key = secret /\ token.signed
    THEN [ok |-> TRUE, data |-> token.data]
    ELSE [ok |-> FALSE, data |-> <<>>]

\* base64.urlsafe_b64encode(...).decode(): the text of a token, with no
\* character outside the base-64 alphabet and with whole padding
UrlsafeB64encode(token) ==
    [kind |-> "base64", token |-> token, ignorable |-> 0, padded |-> TRUE]

\* base64.urlsafe_b64decode without validate: characters outside the
\* alphabet are discarded, a text whose length is not whole raises
UrlsafeB64decode(text) ==
    IF text.padded
    THEN [ok |-> TRUE, token |-> text.token]
    ELSE [ok |-> FALSE, token |-> text.token]

\* EncryptionService.encrypt
Encrypt(secret, plaintext) ==
    IF plaintext = <<>> THEN EmptyText
    ELSE UrlsafeB64encode(FernetEncrypt(secret, plaintext))

\* EncryptionService.decrypt: any exception of the two decodings is caught
\* and the empty str returned
Decrypt(secret, encrypted_text) ==
    IF encrypted_text.kind = "empty" THEN <<>>
    ELSE LET encrypted == UrlsafeB64decode(encrypted_text)
             decrypted == FernetDecrypt(secret, encrypted.token)
         IN  IF encrypted.ok /\ decrypted.ok THEN decrypted.data
             ELSE <<>>

\* what may happen to a stored ciphertext before it is read back: nothing,
\* a changed character, a cut at a whole group of four characters, a cut
\* inside a group, an inserted character outside the base-64 alphabet
Corruptions == {"none", "changed", "cut_group", "cut_inside", "inserted"}

Corrupt(text, how) ==
    IF text.kind = "empty" THEN text
    ELSE CASE how = "changed" ->
                  [text EXCEPT !.token = [@ EXCEPT !.signed = FALSE]]
           [] how = "cut_group" ->
                  [text EXCEPT !.token = [@ EXCEPT !.signed = FALSE]]
           [] how = "cut_inside" -> [text EXCEPT !.padded = FALSE]
           [] how = "inserted" -> [text EXCEPT !.ignorable = @ + 1]
           [] OTHER -> text

CallEncrypt(secret, plaintext) ==
    /\ call' = [op |-> "encrypt", secret |-> secret, plaintext |-> plaintext,
                result |-> Encrypt(secret, plaintext)]
    /\ OnlyCall

\* decrypt of what encrypt(plaintext) under secret `sealed` has become
CallDecrypt(secret, sealed, plaintext, how) ==
    /\ call' = [op |-> "decrypt", secret |-> secret, sealed |-> sealed,
                plaintext |-> plaintext, how |-> how,
                result |-> Decrypt(secret,
                                   Corrupt(Encrypt(sealed, plaintext), how))]
    /\ OnlyCall

\* ---- confidence of a suggestion, in hundredths

\* what the score reads of a generated text: its number of lines, whether it
\* holds a code fence, its number of URLs, its length
Contents ==
    [lines : {3, 4}, fence : BOOLEAN, urls : {0, 1}, length : {99, 100}]

\* lengths of the list of context blocks
ContextSizes == {0, 5}

Min(a, b) == IF a <= b THEN a ELSE b
Max(a, b) == IF a >= b THEN a ELSE b

\* a score with bonuses of 0.10 and without the final min/max
CalculateConfidenceScore_Uncapped(content, existing_blocks) ==
    70 + (IF content.lines > 3 THEN 10 ELSE 0)
       + (IF content.fence THEN 10 ELSE 0)
       + (IF existing_blocks > 0 THEN 10 ELSE 0)
       + (IF content.urls > 0 THEN 10 ELSE 0)
       - (IF content.length < 100 THEN 15 ELSE 0)

\* AIJobProcessor._calculate_confidence_score
CalculateConfidenceScore(content, existing_blocks) ==
    LET score == 70 + (IF content.lines > 3 THEN 5 ELSE 0)
                    + (IF content.fence THEN 5 ELSE 0)
                    + (IF existing_blocks > 0 THEN 5 ELSE 0)
                    + (IF content.urls > 0 THEN 5 ELSE 0)
                    - (IF content.length < 100 THEN 15 ELSE 0)
    IN  Min(95, Max(30, score))

\* confidence_score of _create_edit_suggestion
EditConfidence == 85

CallConfidence(content, existing_blocks) ==
    /\ call' = [op |-> "calculate_confidence_score", content |-> content,
                existing_blocks |-> existing_blocks,
                result |-> CalculateConfidenceScore(content, existing_blocks)]
    /\ OnlyCall

CallEditSuggestion ==
    /\ call' = [op |-> "create_edit_suggestion", result |-> EditConfidence]
    /\ OnlyCall

\* ---- create_ai_provider

\* base URLs the factory fixes for a provider identifier
FixedBaseUrl ==
    [openrouter   |-> "https://openrouter.ai/api/v1",
     groq         |-> "https://api.groq.com/openai/v1",
     fireworks_ai |-> "https://api.fireworks.ai/inference/v1",
     together_ai  |-> "https://api.together.xyz/v1",
     huggingface  |-> "https://api-inference.huggingface.co/v1",
     cohere       |-> "https://api.cohere.ai/v1",
     mistral_ai   |-> "https://api.mistral.ai/v1",
     ai21_labs    |-> "https://api.ai21.com/studio/v1",
     deepseek     |-> "https://api.deepseek.com/v1",
     aleph_alpha  |-> "https://api.aleph-alpha.com/v1",
     perplexity   |-> "https://api.perplexity.ai",
     cloudflare_ai |->
         "https://api.cloudflare.com/client/v4/accounts/{account_id}/ai/v1",
     google_ai    |-> "https://generativelanguage.googleapis.com/v1"]

\* base URLs the factory uses when the caller passes no endpoint
DefaultBaseUrl ==
    [lepton_ai |-> "https://api.lepton.ai/api/v1",
     replicate |-> "https://api.replicate.com/v1",
     anyscale  |-> "https://api.endpoints.anyscale.com/v1"]

\* identifiers that need an endpoint, by the adapter they resolve to
EndpointOpenAI == {"azure_openai", "baseten"}
EndpointCustom == {"amazon_bedrock", "modal", "openai_compatible"}

ProviderTypes ==
    {"openai", "anthropic", "unknown"} \cup DOMAIN FixedBaseUrl
        \cup DOMAIN DefaultBaseUrl \cup EndpointOpenAI \cup EndpointCustom

\* api_endpoint of a configuration: absent, empty, a custom URL
Endpoints == {None, "", "https://custom.example/v1"}

Falsy(x) == x \in {None, ""}

\* the base URL the client library uses when none is passed
LibraryBaseUrl == "https://api.openai.com/v1"

\* OpenAIProvider.__init__
OpenAIProvider(base_url, available) ==
    [adapter |-> "OpenAIProvider",
     base_url |-> IF Falsy(base_url) THEN LibraryBaseUrl ELSE base_url,
     raises |-> IF available.openai THEN None ELSE "ImportError"]

\* AnthropicProvider.__init__
AnthropicProvider(available) ==
    [adapter |-> "AnthropicProvider", base_url |-> None,
     raises |-> IF available.anthropic THEN None ELSE "ImportError"]

\* CustomProvider.__init__
CustomProvider(api_endpoint, available) ==
    [adapter |-> "CustomProvider", base_url |-> api_endpoint,
     raises |-> IF available.openai THEN None ELSE "ImportError"]

ValueError == [adapter |-> None, base_url |-> None, raises |-> "ValueError"]

\* a factory in which "groq" honours the endpoint of the caller
CreateAIProvider_GroqEndpoint(provider_type, api_endpoint, available) ==
    CASE provider_type = "openai" -> OpenAIProvider(api_endpoint, available)
      [] provider_type = "anthropic" -> AnthropicProvider(available)
      [] provider_type = "groq" ->
             OpenAIProvider(IF Falsy(api_endpoint)
                            THEN FixedBaseUrl[provider_type]
                            ELSE api_endpoint, available)
      [] provider_type \in DOMAIN FixedBaseUrl \ {"groq"} ->
             OpenAIProvider(FixedBaseUrl[provider_type], available)
      [] provider_type \in DOMAIN DefaultBaseUrl ->
             OpenAIProvider(IF Falsy(api_endpoint)
                            THEN DefaultBaseUrl[provider_type]
                            ELSE api_endpoint, available)
      [] provider_type \in EndpointOpenAI ->
             IF Falsy(api_endpoint) THEN ValueError
             ELSE OpenAIProvider(api_endpoint, available)
      [] provider_type \in EndpointCustom ->
             IF Falsy(api_endpoint) THEN ValueError
             ELSE CustomProvider(api_endpoint, available)
      [] OTHER -> ValueError

\* create_ai_provider: the adapter class chosen, the base URL it is built
\* with, and what the construction raises
CreateAIProvider(provider_type, api_endpoint, available) ==
    CASE provider_type = "openai" -> OpenAIProvider(api_endpoint, available)
      [] provider_type = "anthropic" -> AnthropicProvider(available)
      [] provider_type \in DOMAIN FixedBaseUrl ->
             OpenAIProvider(FixedBaseUrl[provider_type], available)
      [] provider_type \in DOMAIN DefaultBaseUrl ->
             OpenAIProvider(IF Falsy(api_endpoint)
                            THEN DefaultBaseUrl[provider_type]
                            ELSE api_endpoint, available)
      [] provider_type \in EndpointOpenAI ->
             IF Falsy(api_endpoint) THEN ValueError
             ELSE OpenAIProvider(api_endpoint, available)
      [] provider_type \in EndpointCustom ->
             IF Falsy(api_endpoint) THEN ValueError
             ELSE CustomProvider(api_endpoint, available)
      [] OTHER -> ValueError

\* which of the two client packages could be imported
Availabilities == [openai : BOOLEAN, anthropic : BOOLEAN]

CallCreateAIProvider(provider_type, api_endpoint, available) ==
    /\ call' = [op |-> "create_ai_provider", provider_type |-> provider_type,
                api_endpoint |-> api_endpoint, available |-> available,
                result |-> CreateAIProvider(provider_type, api_endpoint,
                                            available)]
    /\ OnlyCall

\* ---- the credential a task template hands to create_ai_provider

\* api_key_encrypted of a configuration created without a key
NullText == [kind |-> "null"]

\* what the column can hold: NULL, or what encrypt returned for the key of
\* the caller, as it is read back
StoredKeys ==
    {NullText} \cup
    {Corrupt(Encrypt(sealed, plaintext), how) :
        sealed \in Secrets, plaintext \in Plaintexts \ {<<>>},
        how \in Corruptions}

\* values of the {PROVIDER}_API_KEY variable; os.getenv defaults to ""
EnvironmentKeys == {<<>>, <<"e">>}

\* templates that decrypt the column before they call the factory
DecryptingTemplates == {"content_creator", "content_editor"}

\* the second argument of create_ai_provider in the template of job_type
KeyHandedToFactory(job_type, stored, secret, env) ==
    IF job_type \in DecryptingTemplates
    THEN LET api_key == IF stored.kind = "base64"
                        THEN Decrypt(secret, stored) ELSE <<>>
         IN  IF api_key # <<>>
             THEN [kind |-> "decrypted", value |-> api_key]
             ELSE [kind |-> "environment", value |-> env]
    ELSE [kind |-> IF stored.kind = "base64" THEN "ciphertext" ELSE "none",
          value |-> stored]

CallCredential(job_type, stored, secret, env) ==
    /\ call' = [op |-> "credential", job_type |-> job_type,
                stored |-> stored, secret |-> secret, env |-> env,
                result |-> KeyHandedToFactory(job_type, stored, secret, env)]
    /\ OnlyCall

\* ------------------------------------------- sends cut at their suspensions

\* tasks that may be inside send_personal_message / broadcast at once
Senders == {"t1", "t2"}

IdleSend == [pc |-> "idle", remaining |-> {}, message |-> Welcome]

\* the websockets some send in flight still holds in its copy of the set
HeldBySends == UNION {sending[t].remaining : t \in Senders}

\* websocket_endpoint for a new websocket object: the identity of an object
\* that a send in flight still refers to is not given to a new one
ConnectFresh(c, u) ==
    /\ c \notin HeldBySends
    /\ Connect(c, u)

\* send_personal_message (user_id a user) or broadcast (user_id None) up to
\* its first send_text: the early return for a user without connections,
\* else the copy of the set the loop will walk
SendStart(t, user_id) ==
    /\ sending[t].pc = "idle"
    /\ clock <= MaxSends
    /\ clock' = clock + 1
    /\ LET connections == IF user_id = None
                          THEN AllConnections(active_connections)
                          ELSE ConnectionsOf(active_connections, user_id)
       IN sending' = [sending EXCEPT ![t] =
                        IF connections = {} THEN IdleSend
                        ELSE [pc |-> "sending", remaining |-> connections,
                              message |-> Notification(clock)]]
    /\ UNCHANGED <<call, review, configs, jobs, suggestions, task, cancel,
                   chanVars, last, response, submitted_active>>

\* one round of the loop: await connection.send_text returns or raises, and
\* on raising disconnect runs, under a lock no other task holds across a
\* suspension
SendStep(t, c, raised) ==
    /\ sending[t].pc = "sending"
    /\ c \in sending[t].remaining
    /\ LET r == DisconnectRegistry(active_connections, connection_users, c)
       IN IF raised
          THEN /\ active_connections' = r.ac
               /\ connection_users' = r.cu
               /\ inbox' = [inbox EXCEPT ![c] = <<>>]
          ELSE /\ UNCHANGED <<active_connections, connection_users>>
               /\ inbox' = IF c \in DOMAIN connection_users
                            THEN [inbox EXCEPT
                                    ![c] = Append(@, sending[t].message)]
                            ELSE inbox
    /\ sending' = [sending EXCEPT ![t] =
                     IF sending[t].remaining = {c} THEN IdleSend
                     ELSE [@ EXCEPT !.remaining = @ \ {c}]]
    /\ UNCHANGED <<call, review, configs, jobs, suggestions, task, cancel,
                   clock, last, response, submitted_active>>

\* ---------------------------------------------------------- specification

EmptyRegistry == [x \in {} |-> {}]

Init ==
    /\ configs = [c \in ConfigIds |-> [user_id |-> "u1", is_active |-> TRUE]]
    /\ jobs = [j \in JobIds |-> NoJob]
    /\ suggestions = <<>>
    /\ task = [j \in JobIds |-> IdleTask]
    /\ cancel = [j \in JobIds |-> IdleCancel]
    /\ active_connections = EmptyRegistry
    /\ connection_users = EmptyRegistry
    /\ inbox = [c \in Conns |-> <<>>]
    /\ clock = 1
    /\ last = HttpResponse(None, None, None, 0, 0)
    /\ response = [j \in JobIds |-> NoResponse]
    /\ submitted_active = [j \in JobIds |-> TRUE]
    /\ review = [r \in Reviewers |-> IdleReview]
    /\ call = NoCall
    /\ sending = [t \in Senders |-> IdleSend]

ChannelNext ==
    \/ \E c \in Conns, u \in Users : Connect(c, u)
    \/ \E c \in Conns : Disconnect(c)

AcceptNext ==
    \/ \E u \in Users, cid \in RequestConfigIds, jt \in AIAgentType :
          \E b \in BlockIdChoices(jt) : SubmitPersist(u, cid, jt, b)
    \/ \E j \in JobIds : SubmitReturn(j)

TaskNext ==
    \/ \E j \in JobIds : TaskLoad(j)
    \/ \E j \in JobIds : TaskCommitRunning(j)
    \/ \E j \in JobIds, failed \in SUBSET Conns : TaskSendRunning(j, failed)
    \/ \E j \in JobIds, failed \in SUBSET Conns : TaskProgress(j, failed)
    \/ \E j \in JobIds, store_ok \in BOOLEAN : TaskSearch(j, store_ok)
    \/ \E j \in JobIds, found \in BOOLEAN : TaskLoadBlock(j, found)
    \/ \E j \in JobIds, result \in ProviderResults : TaskGenerate(j, result)
    \/ \E j \in JobIds : TaskCommitSuggestion(j)
    \/ \E j \in JobIds, failed \in SUBSET Conns : TaskSendCompleted(j, failed)
    \/ \E j \in JobIds, failed \in SUBSET Conns : TaskSendFailed(j, failed)
    \/ \E j \in JobIds : TaskFinallyCommit(j)

CancelNext ==
    \/ \E u \in Users, j \in JobIds : CancelLoad(u, j)
    \/ \E j \in JobIds : CancelCommit(j)
    \/ \E j \in JobIds, failed \in SUBSET Conns : CancelSend(j, failed)

\* a job from its accepted submission on, with cancel requests and the channel
Next ==
    \/ ChannelNext
    \/ AcceptNext
    \/ TaskNext
    \/ CancelNext

Spec == Init /\ [][Next]_vars

\* submission: requests against missing, foreign and deactivated
\* configurations, and the background task of an accepted one
SubmitNext ==
    \/ \E u \in Users, cid \in RequestConfigIds : SubmitRejected(u, cid)
    \/ \E u \in Users, cid \in RequestConfigIds : DeleteConfig(u, cid)
    \/ AcceptNext
    \/ TaskNext

SpecSubmit == Init /\ [][SubmitNext]_vars

\* a job and its cancel requests when store calls of the task may raise;
\* every call the task is suspended in returns or raises
FaultNext ==
    \/ AcceptNext
    \/ TaskNext
    \/ CancelNext
    \/ \E j \in JobIds : TaskStoreRaises(j)

SpecLive ==
    /\ Init
    /\ [][FaultNext]_vars
    /\ WF_vars(\E j \in JobIds : SubmitReturn(j))
    /\ WF_vars(TaskNext \/ \E j \in JobIds : TaskStoreRaises(j))

\* the connection manager alone: connects, disconnects and sends
RegistryNext ==
    \/ ChannelNext
    \/ \E u \in Users, failed \in SUBSET Conns : SendNotification(u, failed)
    \/ \E failed \in SUBSET Conns : BroadcastNotification(failed)

SpecChannel == Init /\ [][RegistryNext]_vars

ReviewNext ==
    \/ \E r \in Reviewers, kind \in {"approve", "reject"}, u \in Users,
          id \in SuggestionIds, feedback \in Feedbacks :
          ReviewLoad(r, kind, u, id, feedback)
    \/ \E r \in Reviewers : ReviewCommit(r)

\* a job, the suggestion its task creates, and the review of the suggestion
ReviewedNext ==
    \/ AcceptNext
    \/ TaskNext
    \/ ReviewNext

SpecReview == Init /\ [][ReviewedNext]_vars

\* the live channel as its clients drive it
SocketNext ==
    \/ ChannelNext
    \/ \E c \in Conns, payload \in Payloads : Receive(c, payload)

SpecSocket == Init /\ [][SocketNext]_vars

\* the channel with its sends cut at every send_text
InterleavedNext ==
    \/ \E c \in Conns, u \in Users : ConnectFresh(c, u)
    \/ \E c \in Conns : Disconnect(c)
    \/ \E t \in Senders, user_id \in Users \cup {None} : SendStart(t, user_id)
    \/ \E t \in Senders, c \in Conns, raised \in BOOLEAN : SendStep(t, c, raised)

SpecRegistry == Init /\ [][InterleavedNext]_vars

\* the functions of the services and utils, called with every argument
CallsNext ==
    \/ \E adapter \in Adapters, outcome \in VendorOutcomes :
          CallGenerate(adapter, outcome)
    \/ \E secret \in Secrets, plaintext \in Plaintexts :
          CallEncrypt(secret, plaintext)
    \/ \E secret \in Secrets, sealed \in Secrets, plaintext \in Plaintexts,
          how \in Corruptions :
          CallDecrypt(secret, sealed, plaintext, how)
    \/ \E content \in Contents, existing_blocks \in ContextSizes :
          CallConfidence(content, existing_blocks)
    \/ CallEditSuggestion
    \/ \E provider_type \in ProviderTypes, api_endpoint \in Endpoints,
          available \in Availabilities :
          CallCreateAIProvider(provider_type, api_endpoint, available)
    \/ \E job_type \in AIAgentType, stored \in StoredKeys, secret \in Secrets,
          env \in EnvironmentKeys :
          CallCredential(job_type, stored, secret, env)

SpecCalls == Init /\ [][CallsNext]_vars

TypeOK ==
    /\ \A j \in JobIds : jobs[j] = NoJob \/ jobs[j].status \in AIJobStatus
    /\ DOMAIN active_connections \subseteq Users
    /\ DOMAIN connection_users \subseteq Conns

\* ------------------------------------------------------------------ claims

Exists(j) == jobs[j] # NoJob

\* the edges of the job state machine
StatusEdges ==
    {<<PENDING, RUNNING>>, <<RUNNING, COMPLETED>>, <<RUNNING, FAILED>>,
     <<PENDING, CANCELLED>>, <<RUNNING, CANCELLED>>}

\* the task of job j takes a step
TaskStep(j) == task'[j] # task[j]

\* the task of job j is past its commit of RUNNING and not finished
TaskSuspended(j) ==
    task[j].pc \notin {"idle", "queued", "commit_running", "done"}

\* C1: every change of a job's persisted status follows an edge of the state
\* machine; a terminal status is never followed by another status.
C1_StatusFollowsEdges ==
    [][\A j \in JobIds :
          (Exists(j) /\ jobs'[j].status # jobs[j].status)
             => <<jobs[j].status, jobs'[j].status>> \in StatusEdges]_vars

\* C2: a job cancelled while its task is suspended stays CANCELLED when the
\* task resumes: no step of the task changes the persisted status CANCELLED.
C2_TaskKeepsCancelled ==
    [][\A j \in JobIds :
          (Exists(j) /\ jobs[j].status = CANCELLED /\ TaskSuspended(j) /\ TaskStep(j))
             => jobs'[j].status = CANCELLED]_vars

\* C3: completed_at is set exactly when the status is terminal.
C3_CompletedAtIffTerminal ==
    \A j \in JobIds :
        Exists(j) => ((jobs[j].completed_at # NoStamp) <=> (jobs[j].status \in Terminal))

\* C4: completed_at, once set, is never assigned again.
C4_CompletedAtSetOnce ==
    [][\A j \in JobIds :
          (Exists(j) /\ jobs[j].completed_at # NoStamp)
             => jobs'[j].completed_at = jobs[j].completed_at]_vars

\* a cancel request for job j is handled in this step up to its first await
\* or its rejection
CancelHandled(j) == cancel[j].pc = "idle" /\ cancel'[j].n # cancel[j].n

\* C5: a cancel request that finds the job COMPLETED, FAILED or CANCELLED is
\* answered with a client error (400 to the owner) and changes no field of
\* the job row.
C5_CancelOfTerminalRejected ==
    [][\A j \in JobIds :
          (Exists(j) /\ jobs[j].status \in Terminal /\ CancelHandled(j))
             => /\ cancel'[j].pc = "idle"
                /\ cancel'[j].code \in {400, 404}
                /\ (cancel'[j].user = jobs[j].user_id => cancel'[j].code = 400)
                /\ jobs' = jobs]_vars

W_C5_CancelOfTerminalRejected ==
    \E j \in JobIds :
        /\ Exists(j)
        /\ jobs[j].status \in Terminal
        /\ cancel[j].pc = "idle"
        /\ cancel[j].code = 400
        /\ cancel[j].user = jobs[j].user_id

\* C6: a cancel request of the owner that finds the job PENDING or RUNNING
\* is not rejected; its one commit sets status CANCELLED, the error message
\* "Cancelled by user" and completed_at; it then sends the cancelled update
\* to the owner's connections and returns 200, also when sends fail.
C6_CancelMarksAndNotifies ==
    [][\A j \in JobIds :
          /\ (Exists(j) /\ jobs[j].status \in {PENDING, RUNNING} /\ CancelHandled(j)
                /\ cancel'[j].user = jobs[j].user_id)
                => cancel'[j].pc = "commit"
          /\ (cancel[j].pc = "commit" /\ cancel'[j].pc # "commit")
                => /\ cancel'[j].pc = "send"
                   /\ jobs'[j].status = CANCELLED
                   /\ jobs'[j].error_message = "Cancelled by user"
                   /\ jobs'[j].completed_at # NoStamp
                   /\ jobs'[j].completed_at = cancel[j].stamp
          /\ (cancel[j].pc = "send" /\ cancel'[j].pc # "send")
                => /\ cancel'[j].pc = "idle"
                   /\ cancel'[j].code = 200
                   /\ \A c \in ConnectionsOf(active_connections, jobs[j].user_id) :
                         \/ c \notin DOMAIN connection_users'
                         \/ inbox'[c] = Append(inbox[c], StatusUpdate(j, CANCELLED))
                   /\ \A c \in Conns \ ConnectionsOf(active_connections, jobs[j].user_id) :
                         inbox'[c] = inbox[c]]_vars

W_C6_CancelMarksAndNotifies ==
    \E j \in JobIds, c \in Conns :
        /\ Exists(j)
        /\ cancel[j].pc = "idle"
        /\ cancel[j].code = 200
        /\ jobs[j].status = CANCELLED
        /\ jobs[j].error_message = "Cancelled by user"
        /\ c \in ConnectionsOf(active_connections, jobs[j].user_id)
        /\ Len(inbox[c]) > 0
        /\ inbox[c][Len(inbox[c])] = StatusUpdate(j, CANCELLED)

\* C7: every persisted job was submitted against a configuration that was
\* active at submission; a submission against a deactivated one persists
\* nothing.
C7_SubmittedConfigWasActive ==
    \A j \in JobIds : Exists(j) => submitted_active[j]

\* the configuration a request names exists and belongs to the caller
OwnsConfig(u, cid) ==
    /\ cid \in DOMAIN configs
    /\ configs[cid].user_id = u

\* create_ai_job answers in this step
SubmitAnswered == last' # last /\ last'.op = "create_ai_job"

\* C8: a submission naming a configuration that is missing or another
\* user's is answered 404, persists no job and dispatches no task; every
\* persisted job's configuration belongs to the job's owner.
C8_ForeignConfigRejected ==
    /\ [](\A j \in JobIds :
            Exists(j) => OwnsConfig(jobs[j].user_id, jobs[j].configuration_id))
    /\ [][(SubmitAnswered /\ ~OwnsConfig(last'.user, last'.config_id))
             => (last'.code = 404 /\ jobs' = jobs /\ task' = task)]_vars

W_C8_ForeignConfigRejected ==
    /\ last.op = "create_ai_job"
    /\ last.code = 404
    /\ last.user = "u2"
    /\ last.config_id = "cfg1"
    /\ \A j \in JobIds : ~Exists(j)

\* the body of a job that has not started
PendingBody ==
    [status |-> PENDING, started_at |-> NoStamp, completed_at |-> NoStamp,
     output_data |-> None, error_message |-> None]

\* C9: the submit response shows the job PENDING with started_at,
\* completed_at, output and error message unset; the job stays PENDING until
\* the response is out, the background task runs only after it, and nothing
\* the task does changes the response.
C9_SubmitReturnsPending ==
    \A j \in JobIds :
        /\ response[j] # NoResponse => response[j] = PendingBody
        /\ (Exists(j) /\ response[j] = NoResponse)
              => (jobs[j].status = PENDING /\ task[j].pc = "queued")

W_C9_SubmitReturnsPending ==
    \E j \in JobIds :
        /\ Exists(j)
        /\ response[j] = PendingBody
        /\ task[j].pc = "done"
        /\ jobs[j].status = FAILED

\* the suggestions of job j
SuggestionsOf(j) ==
    {i \in 1..Len(suggestions) : suggestions[i].ai_job_id = j}

ProviderFailed(j) == task[j].result \in {"error", "empty"}

CreatorSucceeded(j) ==
    /\ Exists(j)
    /\ jobs[j].job_type = "content_creator"
    /\ task[j].result = "content"
    /\ cancel[j].n = 0

\* C11: a content_creator job whose provider call returns content, with no
\* cancel request, moves PENDING -> RUNNING -> COMPLETED and no other way;
\* when its task has finished the job is COMPLETED with both timestamps,
\* output_data holds the provider result, and the job has exactly one
\* suggestion, which was inserted with review status pending.
C11_CreatorCompletesWithSuggestion ==
    /\ [](\A j \in JobIds :
            CreatorSucceeded(j) =>
               /\ jobs[j].status \in {RUNNING, COMPLETED}
               /\ task[j].pc \in {"cc_progress80", "cc_commit_suggestion",
                                  "send_completed", "finally_commit", "done"}
               /\ task[j].pc \in {"send_completed", "finally_commit", "done"} =>
                     /\ jobs[j].output_data = "result"
                     /\ Cardinality(SuggestionsOf(j)) = 1
               /\ task[j].pc = "done" =>
                     /\ jobs[j].status = COMPLETED
                     /\ jobs[j].started_at # NoStamp
                     /\ jobs[j].completed_at # NoStamp
                     /\ jobs[j].error_message = None)
    /\ [][\A j \in JobIds :
            (Exists(j) /\ jobs[j].job_type = "content_creator" /\ cancel'[j].n = 0
               /\ task'[j].result # "error" /\ task'[j].result # "empty"
               /\ jobs'[j].status # jobs[j].status)
               => <<jobs[j].status, jobs'[j].status>>
                     \in {<<PENDING, RUNNING>>, <<RUNNING, COMPLETED>>}]_vars
    /\ [][Len(suggestions') # Len(suggestions)
            => /\ Len(suggestions') = Len(suggestions) + 1
               /\ suggestions'[Len(suggestions')].status = "pending"]_vars

W_C11_CreatorCompletesWithSuggestion ==
    \E j \in JobIds :
        /\ CreatorSucceeded(j)
        /\ task[j].pc = "done"
        /\ jobs[j].status = COMPLETED
        /\ jobs[j].output_data = "result"
        /\ Cardinality(SuggestionsOf(j)) = 1
        /\ suggestions[1].status = "pending"

\* C12: once a job's persisted status is terminal, no step changes its
\* status, output_data or error_message, and no suggestion is inserted for
\* it; a provider result arriving after a cancel stores nothing.
C12_TerminalJobIsFrozen ==
    [][\A j \in JobIds :
          (Exists(j) /\ jobs[j].status \in Terminal)
             => /\ jobs'[j].status = jobs[j].status
                /\ jobs'[j].output_data = jobs[j].output_data
                /\ jobs'[j].error_message = jobs[j].error_message
                /\ SuggestionsOf(j)' = SuggestionsOf(j)]_vars

\* C13: a content_editor job whose input_metadata carries no block_id makes
\* no state transition: it is never RUNNING and never FAILED.
C13_EditorWithoutBlockIdNeverRuns ==
    \A j \in JobIds :
        (Exists(j) /\ jobs[j].job_type = "content_editor" /\ ~jobs[j].has_block_id)
           => jobs[j].status \notin {RUNNING, FAILED}

\* C14: every accepted job eventually has a terminal status when every
\* call its task waits for returns or raises; process_job never raises, and
\* when it returns it leaves the job COMPLETED or FAILED.
C14_AcceptedJobTerminates ==
    /\ \A j \in JobIds : Exists(j) ~> (jobs[j].status \in Terminal)
    /\ [](\A j \in JobIds : task[j].pc # "raised")
    /\ [][\A j \in JobIds :
            (task[j].pc # "done" /\ task'[j].pc = "done")
               => jobs'[j].status \in {COMPLETED, FAILED}]_vars

\* in this step every connection user u has open either receives message m
\* as its next message or is removed from the registry
DeliveredTo(u, m) ==
    \A c \in ConnectionsOf(active_connections, u) :
        \/ c \notin DOMAIN connection_users'
        \/ inbox'[c] = Append(inbox[c], m)

\* C15: every change of a job's persisted status comes with an
\* ai_job_update of the new status to the owner's connections: RUNNING and
\* CANCELLED are committed and then sent; COMPLETED and FAILED are sent and
\* then committed by the finally block, which is entered only through one of
\* the two sends, so every failure of the background execution is sent.
C15_StatusChangeIsNotified ==
    [][\A j \in JobIds :
          /\ (Exists(j) /\ jobs'[j].status # jobs[j].status) =>
                CASE jobs'[j].status = RUNNING -> task'[j].pc = "send_running"
                  [] jobs'[j].status = CANCELLED -> cancel'[j].pc = "send"
                  [] jobs'[j].status \in {COMPLETED, FAILED} ->
                        /\ task[j].pc = "finally_commit"
                        /\ jobs'[j].status = task[j].mem.status
                  [] OTHER -> FALSE
          /\ (task[j].pc = "send_running" /\ TaskStep(j))
                => DeliveredTo(jobs[j].user_id, StatusUpdate(j, RUNNING))
          /\ (cancel[j].pc = "send" /\ cancel'[j].pc # "send")
                => DeliveredTo(jobs[j].user_id, StatusUpdate(j, CANCELLED))
          /\ (task[j].pc # "finally_commit" /\ task'[j].pc = "finally_commit")
                => /\ task[j].pc \in {"send_completed", "send_failed"}
                   /\ task[j].mem.status \in {COMPLETED, FAILED}
                   /\ task'[j].mem.status = task[j].mem.status
                   /\ DeliveredTo(jobs[j].user_id, StatusUpdate(j, task[j].mem.status))]_vars

W_C15_StatusChangeIsNotified ==
    \E j \in JobIds, c \in Conns :
        /\ Exists(j)
        /\ task[j].pc = "done"
        /\ jobs[j].status = COMPLETED
        /\ c \in ConnectionsOf(active_connections, jobs[j].user_id)
        /\ \E i \in 1..Len(inbox[c]) : inbox[c][i] = StatusUpdate(j, RUNNING)
        /\ \E i \in 1..Len(inbox[c]) : inbox[c][i] = StatusUpdate(j, COMPLETED)

\* message m is an event of job j of the given kind
IsProgress(m, j) == m.type = "ai_job_progress" /\ m.job_id = j
IsUpdate(m, j, statuses) ==
    m.type = "ai_job_update" /\ m.job_id = j /\ m.status \in statuses

\* C16: in what a connection has received since it was opened, the running
\* update of a job comes before every progress event of the job, and the
\* completed or failed update comes after every progress event of the job.
C16_EventsArriveInOrder ==
    \A c \in Conns, j \in JobIds :
        \A i \in 1..Len(inbox[c]), k \in 1..Len(inbox[c]) :
            i < k =>
               /\ ~(IsProgress(inbox[c][i], j) /\ IsUpdate(inbox[c][k], j, {RUNNING}))
               /\ ~(IsUpdate(inbox[c][i], j, {COMPLETED, FAILED})
                      /\ IsProgress(inbox[c][k], j))

W_C16_EventsArriveInOrder ==
    \E c \in Conns, j \in JobIds :
        inbox[c] = <<Welcome, StatusUpdate(j, RUNNING), Progress(j, 10), Progress(j, 30),
                     Progress(j, 50), Progress(j, 80), StatusUpdate(j, COMPLETED)>>

\* C17: the percentages of the progress events of one job, in the order a
\* connection receives them, never decrease, and each lies in 0..100.
C17_ProgressNeverDecreases ==
    \A c \in Conns, j \in JobIds :
        /\ \A i \in 1..Len(inbox[c]) :
              IsProgress(inbox[c][i], j) => inbox[c][i].progress \in 0..100
        /\ \A i \in 1..Len(inbox[c]), k \in 1..Len(inbox[c]) :
              (i < k /\ IsProgress(inbox[c][i], j) /\ IsProgress(inbox[c][k], j))
                 => inbox[c][i].progress <= inbox[c][k].progress

W_C17_ProgressNeverDecreases ==
    \E c \in Conns, j \in JobIds :
        \E i \in 1..Len(inbox[c]), k \in 1..Len(inbox[c]) :
            /\ i < k
            /\ inbox[c][i] = Progress(j, 30)
            /\ inbox[c][k] = Progress(j, 50)

\* websocket c is registered for user u
RegisteredFor(c, u) == c \in DOMAIN connection_users /\ connection_users[c] = u

\* a call of send_personal_message / broadcast returns in this step
ChannelReturned(ops) ==
    last' # last /\ last'.op \in ops

\* C18: after any sequence of connects, disconnects and sends, the two maps
\* of the registry agree, and a message sent to user U is appended to what
\* every connection registered for U has received (unless its send fails)
\* and changes nothing for the connections of any other user.
C18_MessageReachesOnlyItsUser ==
    /\ [](\A c \in Conns, u \in Users :
            RegisteredFor(c, u) <=> c \in ConnectionsOf(active_connections, u))
    /\ [][ChannelReturned({"send_personal_message"}) =>
            \A c \in Conns :
               IF RegisteredFor(c, last'.user)
               THEN \/ c \in last'.failed
                    \/ inbox'[c] = Append(inbox[c], last'.message)
               ELSE /\ inbox'[c] = inbox[c]
                    /\ (c \in DOMAIN connection_users') = (c \in DOMAIN connection_users)]_vars

W_C18_MessageReachesOnlyItsUser ==
    /\ last.op = "send_personal_message"
    /\ last.user = "u1"
    /\ last.failed = {}
    /\ RegisteredFor("w1", "u1")
    /\ RegisteredFor("w2", "u2")
    /\ inbox["w1"] = <<Welcome, last.message>>
    /\ inbox["w2"] = <<Welcome>>

\* C19: when send_text fails on some connections during a send to a user
\* or a broadcast, the call returns, exactly the failing connections leave
\* the registry, and every other targeted connection receives the message.
C19_SendFailureRemovesOnlyThatConnection ==
    [][ChannelReturned({"send_personal_message", "broadcast"}) =>
          /\ DOMAIN connection_users' = DOMAIN connection_users \ last'.failed
          /\ \A c \in DOMAIN connection_users' :
                connection_users'[c] = connection_users[c]
          /\ \A u \in Users :
                ConnectionsOf(active_connections', u)
                   = ConnectionsOf(active_connections, u) \ last'.failed
          /\ \A c \in last'.targets \ last'.failed :
                inbox'[c] = Append(inbox[c], last'.message)]_vars

W_C19_SendFailureRemovesOnlyThatConnection ==
    /\ last.op \in {"send_personal_message", "broadcast"}
    /\ last.targets = {"w1", "w2"}
    /\ last.failed = {"w1"}
    /\ "w1" \notin DOMAIN connection_users
    /\ RegisteredFor("w2", "u1")
    /\ inbox["w2"] = <<Welcome, last.message>>

\* C20: a suggestion whose review status is no longer pending is never
\* changed again, and every approve or reject that is answered 200 found the
\* suggestion pending when it committed.
C20_SuggestionActionedOnce ==
    /\ [][\A i \in DOMAIN suggestions :
            suggestions[i].status # "pending" => suggestions'[i] = suggestions[i]]_vars
    /\ [][\A r \in Reviewers :
            (review[r].pc = "commit" /\ review'[r].pc = "idle")
               => suggestions[review[r].id].status = "pending"]_vars

\* C21: a job has at most one suggestion at any time, and a
\* content_researcher or course_designer job has none, whatever the
\* provider returned.
C21_AtMostOneSuggestion ==
    \A j \in JobIds :
        /\ Cardinality(SuggestionsOf(j)) <= 1
        /\ (Exists(j) /\ jobs[j].job_type \in {"content_researcher", "course_designer"})
              => SuggestionsOf(j) = {}

W_C21_AtMostOneSuggestion ==
    \E j \in JobIds :
        /\ Exists(j)
        /\ jobs[j].job_type = "course_designer"
        /\ task[j].pc = "done"
        /\ task[j].result = "content"
        /\ jobs[j].status = COMPLETED
        /\ jobs[j].output_data = "result"
        /\ SuggestionsOf(j) = {}

\* the receive loop handled a frame with this payload in this step
Received(payload) ==
    last' # last /\ last'.op = "receive" /\ last'.payload = payload

FixedText(class) ==
    CASE class = "authentication" -> AuthenticationText
      [] class = "unknown_model" -> ModelText
      [] class = "rate_limit" -> RateLimitText

\* C23: generate returns the error variant for every vendor failure, with
\* every adapter, and for an authentication failure, an unknown model and a
\* rate-limit failure the error is the fixed text of the class.
C23_GenerateNormalisesFailures ==
    (call.op = "generate" /\ call.outcome \in FailureClasses) =>
        /\ call.result.error # None
        /\ call.result.content = None
        /\ call.outcome # "transport" => call.result.error = FixedText(call.outcome)

\* the template of job j holds the list its context query returned
HasContext(j) == task[j].context # NoContext

\* the limit the template of job j passed to its context query
LimitOf(j) ==
    CASE jobs[j].job_type = "content_creator" -> 5
      [] jobs[j].job_type = "content_researcher" -> 10
      [] jobs[j].job_type = "course_designer" -> 20
      [] OTHER -> 0

\* C24: a context query whose store call fails returns the empty list and
\* raises nothing, and one that succeeds returns at most limit items; the
\* task goes on from the query to its next step in both cases, and while it
\* works with an empty context it is not FAILED.
C24_ContextFailureIsEmptyList ==
    /\ [](\A j \in JobIds :
            HasContext(j) =>
               /\ task[j].context \in 0..LimitOf(j)
               /\ task[j].mem.status = RUNNING
               /\ task[j].pc \notin {"send_failed", "finally_commit", "done"})
    /\ [][\A j \in JobIds :
            (task[j].pc \in DOMAIN SearchNext /\ TaskStep(j))
               => /\ task'[j].pc = SearchNext[task[j].pc]
                  /\ task'[j].mem = task[j].mem
                  /\ HasContext(j)'
                  /\ TaskSearch(j, FALSE) => task'[j].context = 0]_vars

W_C24_ContextFailureIsEmptyList ==
    \E j \in JobIds :
        /\ Exists(j)
        /\ task[j].context = 0
        /\ task[j].pc = "cc_commit_suggestion"
        /\ task[j].result = "content"
        /\ task[j].mem.output_data = "result"

\* C25: under one secret decrypt returns the plaintext that encrypt sealed,
\* for every non-empty plaintext, and decrypt of a ciphertext that was changed,
\* cut or had a character inserted returns the empty string.
C25_DecryptInvertsEncryptAndRejectsCorruption ==
    (call.op = "decrypt" /\ call.plaintext # <<>> /\ call.secret = call.sealed)
        => /\ call.how = "none" => call.result = call.plaintext
           /\ call.how # "none" => call.result = <<>>

\* C26: the confidence score of a suggestion lies within [0.30, 0.95] for
\* every combination of the five scoring conditions, and so does the score of
\* an edit suggestion.
C26_ConfidenceWithinRange ==
    (call.op \in {"calculate_confidence_score", "create_edit_suggestion"})
        => call.result \in 30..95

W_C26_ConfidenceWithinRange ==
    /\ call.op = "calculate_confidence_score"
    /\ call.content.lines > 3 /\ call.content.fence /\ call.content.urls > 0
    /\ call.existing_blocks > 0 /\ call.content.length >= 100
    /\ call.result = 90

\* C27: the factory resolves "groq" to the OpenAI-compatible adapter built
\* with the base URL of Groq, whatever endpoint the caller passes, and
\* resolves "anthropic" to the Anthropic adapter; the construction succeeds
\* when the client package of the adapter could be imported.
C27_FactoryResolvesGroqAndAnthropic ==
    (call.op = "create_ai_provider") =>
        /\ call.provider_type = "groq" =>
              /\ call.result.adapter = "OpenAIProvider"
              /\ call.result.base_url = "https://api.groq.com/openai/v1"
              /\ call.available.openai => call.result.raises = None
        /\ call.provider_type = "anthropic" =>
              /\ call.result.adapter = "AnthropicProvider"
              /\ call.available.anthropic => call.result.raises = None

W_C27_FactoryResolvesGroqAndAnthropic ==
    /\ call.op = "create_ai_provider"
    /\ call.provider_type = "groq"
    /\ call.api_endpoint = "https://custom.example/v1"
    /\ call.available.openai
    /\ call.result.adapter = "OpenAIProvider"

\* C28: after any interleaving of connect, disconnect, send_personal_message
\* and broadcast, send failures included, a websocket is in
\* active_connections[u] exactly when connection_users maps it to u, no
\* websocket is under two users, and no user maps to an empty set.
C28_RegistryMapsAgree ==
    /\ \A u \in Users, c \in Conns :
          c \in ConnectionsOf(active_connections, u)
             <=> (c \in DOMAIN connection_users /\ connection_users[c] = u)
    /\ \A u1, u2 \in DOMAIN active_connections :
          u1 # u2 => active_connections[u1] \cap active_connections[u2] = {}
    /\ \A u \in DOMAIN active_connections : active_connections[u] # {}
    /\ DOMAIN active_connections \subseteq Users
    /\ DOMAIN connection_users \subseteq Conns

\* a send in flight still holds a websocket that has been removed from the
\* registry since the copy was taken, while another websocket is registered
W_C28_RegistryMapsAgree ==
    \E t \in Senders, c \in Conns :
        /\ sending[t].pc = "sending"
        /\ c \in sending[t].remaining
        /\ c \notin DOMAIN connection_users
        /\ DOMAIN connection_users # {}

\* C29: a status is committed before its event is sent: once an
\* ai_job_update with status S of a job has been delivered to a connection,
\* the job record read from the store holds S or a status reached after S,
\* never an earlier one.
C29_StatusCommittedBeforeEvent ==
    \A c \in Conns, j \in JobIds :
        \A i \in 1..Len(inbox[c]) :
            IsUpdate(inbox[c][i], j, AIJobStatus) =>
               /\ Exists(j)
               /\ inbox[c][i].status = RUNNING => jobs[j].status # PENDING
               /\ inbox[c][i].status \in {COMPLETED, FAILED, CANCELLED}
                     => jobs[j].status \in {COMPLETED, FAILED, CANCELLED}

\* C30: in every task template the credential handed to the provider factory
\* is the decryption of the stored ciphertext, or the environment fallback
\* when nothing is stored or the decryption is empty; the stored ciphertext
\* itself is never handed over.
C30_FactoryGetsDecryptedKey ==
    (call.op = "credential") =>
        LET decrypted == IF call.stored.kind = "base64"
                         THEN Decrypt(call.secret, call.stored) ELSE <<>>
        IN  /\ call.result.kind # "ciphertext"
            /\ IF decrypted # <<>>
               THEN call.result.kind = "decrypted"
                      /\ call.result.value = decrypted
               ELSE call.result.kind = "environment"
                      /\ call.result.value = call.env

====
